---- MODULE Spec2Model ----
(***************************************************************************)
(* State-machine model of backend/controllers/userController.ts: the HTTP  *)
(* handlers over the User and Group document stores.                       *)
(*                                                                         *)
(* A request occupies a slot p of Procs.  Handlers that await the store    *)
(* once, or whose claims do not depend on interleaving, are one atomic     *)
(* step; updateUserRole is split at its await points (admin check, group   *)
(* load, save) so that two calls can interleave.  Every store operation    *)
(* may throw: the Boolean "throws" arguments are chosen nondeterministically.*)
(*                                                                         *)
(* Spec      role management, one request at a time                        *)
(* SpecConc  updateUserRole, two requests in flight on one group           *)
(* SpecRead  group enumeration and the family roster                       *)
(* SpecCrud  the profile handlers                                          *)
(***************************************************************************)
EXTENDS Integers, Sequences, FiniteSets, TLC

\* users, groups: the User and Group stores (id -> document)
\* req: per slot, the request in flight or the finished one with its responses
\* lastWrite: history of the last successful group.save() (who, group, target, role)
VARIABLES users, groups, req, lastWrite

vars == <<users, groups, req, lastWrite>>

----------------------------------------------------------------------------
(* Values *)

\* null / undefined of a string-valued field, and of a document
Null == "<null>"
NullDoc == [null |-> TRUE]

UserIds == {"u1", "u2", "u3"}
GroupIds == {"g1", "g2"}
Procs == {"p1", "p2"}

\* request parameters: "" is a parameter that is absent (falsy)
ReqUserIds == {"", "u1", "u2", "u3"}
ReqGroupIds == {"", "g1", "g2"}
ReqRoles == {"", "owner", "admin", "caregiver", "carereceiver"}

Idle == [pc |-> "idle"]

----------------------------------------------------------------------------
(* The document store *)

findById(store, id) ==
    IF id \in DOMAIN store THEN store[id] ELSE NullDoc

\* group.save(): persists the whole group document under its id
save(store, id, doc) ==
    [store EXCEPT ![id] = doc]

\* Array.prototype.findIndex over members by user id: 1-based index, -1 if none
RECURSIVE findIndexFrom(_, _, _)
findIndexFrom(members, userID, i) ==
    IF i > Len(members) THEN -1
    ELSE IF members[i].user = userID THEN i
    ELSE findIndexFrom(members, userID, i + 1)

findIndex(members, userID) == findIndexFrom(members, userID, 1)

\* mutant of isAdminEntry: the role test is dropped
isAdminEntryAnyRole(member, userID) ==
    member.user = userID

\* the predicate of the admin scan: member.user === userID && member.role === 'admin'
isAdminEntry(member, userID) ==
    member.user = userID /\ member.role = "admin"

\* Array.prototype.find with the admin predicate: index of the first match, -1 if none
RECURSIVE findAdminFrom(_, _, _)
findAdminFrom(members, userID, i) ==
    IF i > Len(members) THEN -1
    ELSE IF isAdminEntry(members[i], userID) THEN i
    ELSE findAdminFrom(members, userID, i + 1)

\* mutant of isUserAdminOfGroup: any existing group passes
isUserAdminOfGroupAnyone(store, throws, userID, groupID) ==
    IF throws THEN FALSE ELSE findById(store, groupID) # NullDoc

isUserAdminOfGroup(store, throws, userID, groupID) ==
    IF throws THEN FALSE
    ELSE LET group == findById(store, groupID) IN
         IF group = NullDoc THEN FALSE
         ELSE findAdminFrom(group.members, userID, 1) # -1

\* mutant of validRoles: one more role is let through
validRolesWithOwner == {"admin", "caregiver", "carereceiver", "owner"}

validRoles == {"admin", "caregiver", "carereceiver"}

\* mutant of isSelfChange: the self-change test is dropped
isSelfChangeNever(userID, targetUserID) == FALSE

\* userID === targetUserID
isSelfChange(userID, targetUserID) == userID = targetUserID

\* mutant of setRole: the assignment is lost
setRoleNoop(members, targetMemberIndex, role) == members

\* mutant of setRole: the role is assigned to every entry
setRoleAll(members, targetMemberIndex, role) ==
    [i \in 1..Len(members) |-> [members[i] EXCEPT !.role = role]]

\* group.members[targetMemberIndex].role = role
setRole(members, targetMemberIndex, role) ==
    [members EXCEPT ![targetMemberIndex].role = role]

----------------------------------------------------------------------------
(* Responses *)

Response(status, body) == [status |-> status, body |-> body]

\* a finished invocation: the responses it sent, whether a store operation
\* threw, and how many group reads and writes it made
Done(handler, args, res, threw, reads, writes) ==
    [pc |-> "done", handler |-> handler, args |-> args, res |-> res,
     threw |-> threw, reads |-> reads, writes |-> writes]

Free(p) == req[p].pc \in {"idle", "done"}

----------------------------------------------------------------------------
(* updateUserRole *)

\* lines 484-498: the synchronous validation, up to the first await
URStart(p, userID, targetUserID, role, groupID) ==
    /\ Free(p)
    /\ LET args == [userID |-> userID, targetUserID |-> targetUserID,
                    role |-> role, groupID |-> groupID] IN
       req' = [req EXCEPT ![p] =
          IF userID = "" \/ targetUserID = "" \/ role = "" \/ groupID = ""
          THEN Done("updateUserRole", args,
                    <<Response(400, [message |-> "User ID, target user ID, role, and group ID are required"])>>,
                    FALSE, 0, 0)
          ELSE IF role \notin validRoles
          THEN Done("updateUserRole", args,
                    <<Response(400, [message |-> "Invalid role. Must be admin, caregiver, or carereceiver"])>>,
                    FALSE, 0, 0)
          ELSE [pc |-> "admin", handler |-> "updateUserRole", args |-> args]]
    /\ UNCHANGED <<users, groups, lastWrite>>

\* lines 500-505: await isUserAdminOfGroup
URAdmin(p, throws) ==
    /\ req[p].pc = "admin"
    /\ LET a == req[p].args
           isAdmin == isUserAdminOfGroup(groups, throws, a.userID, a.groupID) IN
       req' = [req EXCEPT ![p] =
          IF ~isAdmin
          THEN [Done("updateUserRole", a,
                     <<Response(403, [message |-> "Only group admins can update user roles"])>>,
                     FALSE, 1, 0)
                EXCEPT !.pc = "done"] @@ [isAdmin |-> FALSE, adminThrew |-> throws]
          ELSE [pc |-> "load", handler |-> "updateUserRole", args |-> a,
                isAdmin |-> TRUE, adminThrew |-> throws]]
    /\ UNCHANGED <<users, groups, lastWrite>>

\* lines 507-530: await Group.findById, then the checks and the in-memory change
URLoad(p, throws) ==
    /\ req[p].pc = "load"
    /\ LET a == req[p].args
           group == findById(groups, a.groupID)
           hist == [isAdmin |-> TRUE, adminThrew |-> FALSE]
           targetMemberIndex == findIndex(group.members, a.targetUserID) IN
       req' = [req EXCEPT ![p] =
          IF throws
          THEN Done("updateUserRole", a,
                    <<Response(500, [message |-> "Internal server error"])>>,
                    TRUE, 1, 0) @@ hist
          ELSE IF group = NullDoc
          THEN Done("updateUserRole", a,
                    <<Response(404, [message |-> "Group not found"])>>,
                    FALSE, 2, 0) @@ hist
          ELSE IF targetMemberIndex = -1
          THEN Done("updateUserRole", a,
                    <<Response(404, [message |-> "Target user is not a member of this group"])>>,
                    FALSE, 2, 0) @@ hist
          ELSE IF isSelfChange(a.userID, a.targetUserID)
          THEN Done("updateUserRole", a,
                    <<Response(400, [message |-> "Cannot change your own role"])>>,
                    FALSE, 2, 0) @@ hist
          ELSE [pc |-> "save", handler |-> "updateUserRole", args |-> a,
                isAdmin |-> TRUE, adminThrew |-> FALSE,
                base |-> group.members,
                doc |-> [group EXCEPT !.members =
                            setRole(group.members, targetMemberIndex, a.role)],
                overlap |-> FALSE]]
    /\ UNCHANGED <<users, groups, lastWrite>>

\* lines 531-540: await group.save(), then the 200
URSave(p, throws) ==
    /\ req[p].pc = "save"
    /\ LET a == req[p].args
           hist == [isAdmin |-> TRUE, adminThrew |-> FALSE,
                    base |-> req[p].base, doc |-> req[p].doc,
                    overlap |-> req[p].overlap] IN
       IF throws
       THEN /\ req' = [req EXCEPT ![p] =
                  Done("updateUserRole", a,
                       <<Response(500, [message |-> "Internal server error"])>>,
                       TRUE, 2, 0) @@ hist]
            /\ UNCHANGED <<groups, lastWrite>>
       ELSE /\ groups' = save(groups, a.groupID, req[p].doc)
            /\ lastWrite' = [by |-> p, groupID |-> a.groupID,
                             target |-> a.targetUserID, role |-> a.role]
            /\ req' = [q \in Procs |->
                  IF q = p
                  THEN Done("updateUserRole", a,
                            <<Response(200, [message |-> "User role updated successfully",
                                             updatedMember |-> [userID |-> a.targetUserID,
                                                                role |-> a.role,
                                                                groupID |-> a.groupID]])>>,
                            FALSE, 2, 1) @@ hist
                  ELSE IF req[q].pc = "save" /\ req[q].args.groupID = a.groupID
                  THEN [req[q] EXCEPT !.overlap = TRUE]
                  ELSE req[q]]
    /\ UNCHANGED users

\* findByIdAndDelete: the store without the document
findByIdAndDelete(store, id) ==
    [k \in DOMAIN store \ {id} |-> store[k]]

\* x || null
OrNull(x) == IF x \in {Null, ""} THEN Null ELSE x

----------------------------------------------------------------------------
(* checkUserAdminStatus, lines 39-87.  tUser, tGroup: User.findById /       *)
(* Group.findById throws; tAdmin: the lookup inside isUserAdminOfGroup throws *)

checkUserAdminStatus(p, userID, groupID, tUser, tGroup, tAdmin) ==
    /\ Free(p)
    /\ LET args == [userID |-> userID, groupID |-> groupID]
           user == findById(users, userID)
           group == findById(groups, groupID)
           isAdmin == isUserAdminOfGroup(groups, tAdmin, userID, groupID)
           memberIndex == findIndex(group.members, userID)
           memberInfo == group.members[memberIndex]
           D(res, threw, adminThrew, reads) ==
               Done("checkUserAdminStatus", args, <<res>>, threw, reads, 0)
                  @@ [adminThrew |-> adminThrew] IN
       req' = [req EXCEPT ![p] =
          IF userID = "" \/ groupID = ""
          THEN D(Response(400, [message |-> "User ID and Group ID are required"]),
                 FALSE, FALSE, 0)
          ELSE IF tUser
          THEN D(Response(500, [error |-> "store"]), TRUE, FALSE, 0)
          ELSE IF user = NullDoc
          THEN D(Response(404, [message |-> "User not found"]), FALSE, FALSE, 0)
          ELSE IF tGroup
          THEN D(Response(500, [error |-> "store"]), TRUE, FALSE, 0)
          ELSE IF group = NullDoc
          THEN D(Response(404, [message |-> "Group not found"]), FALSE, FALSE, 1)
          ELSE IF memberIndex = -1
          THEN D(Response(200, [isAdmin |-> FALSE, isMember |-> FALSE,
                                message |-> "User is not a member of this group"]),
                 FALSE, tAdmin, 2)
          ELSE D(Response(200, [isAdmin |-> isAdmin, isMember |-> TRUE,
                                role |-> memberInfo.role,
                                familialRelation |-> OrNull(memberInfo.familialRelation),
                                groupName |-> group.name]),
                 FALSE, tAdmin, 2)]
    /\ UNCHANGED <<users, groups, lastWrite>>

----------------------------------------------------------------------------
(* deleteUser, lines 301-316 *)

deleteUser(p, userID, throws) ==
    /\ Free(p)
    /\ LET args == [userID |-> userID]
           deletedUser == findById(users, userID) IN
       IF throws
       THEN /\ req' = [req EXCEPT ![p] =
                  Done("deleteUser", args, <<Response(500, [error |-> "store"])>>,
                       TRUE, 0, 0)]
            /\ UNCHANGED users
       ELSE IF deletedUser = NullDoc
       THEN /\ req' = [req EXCEPT ![p] =
                  Done("deleteUser", args,
                       <<Response(404, [message |-> "User not found"])>>, FALSE, 0, 0)]
            /\ UNCHANGED users
       ELSE /\ req' = [req EXCEPT ![p] =
                  Done("deleteUser", args,
                       <<Response(200, [message |-> "User deleted successfully"])>>,
                       FALSE, 0, 0)]
            /\ users' = findByIdAndDelete(users, userID)
    /\ UNCHANGED <<groups, lastWrite>>

----------------------------------------------------------------------------
(* Role management, one request at a time *)

Member(user, role, familialRelation) ==
    [user |-> user, role |-> role, familialRelation |-> familialRelation]

\* the empty name, a name of spaces and letters: strings as character sequences
NoName == <<Null>>
Al == <<"A", "l">>
Bo == <<"B", "o">>
PaddedCy == <<" ", "C", "y", " ">>

User(firstName, lastName, groupID, additionalGroups) ==
    [clerkID |-> "c1", email |-> "a@x.com", name |-> "Ann",
     firstName |-> firstName, lastName |-> lastName, imageURL |-> Null,
     groupID |-> groupID, additionalGroups |-> additionalGroups,
     dateOfBirth |-> Null, gender |-> Null, weight |-> 0, height |-> 0,
     notificationPreferences |-> NullDoc]

\* the family group g1: u1 and u2 are members, u3 is not; no group g2 exists
RoleGroups(r1, r2) ==
    [g \in {"g1"} |->
        [name |-> "Family",
         members |-> <<Member("u1", r1, Null), Member("u2", r2, "son")>>]]

RoleUsers ==
    [u \in UserIds |-> User(Al, Bo, "g1", <<>>)]

Init ==
    /\ users = RoleUsers
    /\ \E r2 \in validRoles : groups = RoleGroups("admin", r2)
    /\ req = [p \in Procs |-> Idle]
    /\ lastWrite = NullDoc

URSteps(p) ==
    \/ \E throws \in BOOLEAN : URAdmin(p, throws)
    \/ \E throws \in BOOLEAN : URLoad(p, throws)
    \/ \E throws \in BOOLEAN : URSave(p, throws)

Next ==
    \E p \in {"p1"} :
       \/ \E u \in ReqUserIds, t \in ReqUserIds, r \in ReqRoles, g \in ReqGroupIds :
             URStart(p, u, t, r, g)
       \/ URSteps(p)
       \/ \E u \in ReqUserIds, g \in ReqGroupIds, tU, tG, tA \in BOOLEAN :
             checkUserAdminStatus(p, u, g, tU, tG, tA)
       \/ \E u \in {"u2", "u3"}, throws \in BOOLEAN : deleteUser(p, u, throws)

Spec == Init /\ [][Next]_vars

----------------------------------------------------------------------------
(* Role management, two requests in flight on the family group *)

InitConc ==
    /\ users = RoleUsers
    /\ groups = RoleGroups("admin", "admin")
    /\ req = [p \in Procs |-> Idle]
    /\ lastWrite = NullDoc

NextConc ==
    \E p \in Procs :
       \/ \E u \in {"u1", "u2"}, t \in UserIds, r \in {"owner", "admin", "caregiver"} :
             URStart(p, u, t, r, "g1")
       \/ URSteps(p)

SpecConc == InitConc /\ [][NextConc]_vars

----------------------------------------------------------------------------
(* Properties of role management *)

Status(r) == r.res[1].status
Body(r) == r.res[1].body

IsCall(r, handler) == r.pc # "idle" /\ r.handler = handler

\* G exists and has a member entry of user U with role admin
HasAdminEntry(U, G) ==
    /\ G \in DOMAIN groups
    /\ \E i \in 1..Len(groups[G].members) :
          groups[G].members[i].user = U /\ groups[G].members[i].role = "admin"

\* C1: isUserAdminOfGroup(U, G) returns true iff G exists and its member list
\* has an entry of user U with role admin; it returns false when G does not
\* exist or the group lookup fails.  Stated of the step that awaits it in
\* updateUserRole and of checkUserAdminStatus's isAdmin for a member.
C1_AdminIffAdminEntry ==
    [][\A p \in Procs :
         /\ (req[p].pc = "admin" /\ req'[p].pc # "admin") =>
               (req'[p].isAdmin <=>
                   (~req'[p].adminThrew
                      /\ HasAdminEntry(req[p].args.userID, req[p].args.groupID)))
         /\ (Free(p) /\ IsCall(req'[p], "checkUserAdminStatus") /\ req'[p] # req[p]
               /\ Status(req'[p]) = 200 /\ Body(req'[p]).isMember) =>
               (Body(req'[p]).isAdmin <=>
                   (~req'[p].adminThrew
                      /\ HasAdminEntry(req'[p].args.userID, req'[p].args.groupID)))
      ]_vars

\* C1 witness: an admin check that returned true, for an admin of an existing group
C1_Witness ==
    \E p \in Procs :
       /\ req[p].pc = "load"
       /\ HasAdminEntry(req[p].args.userID, req[p].args.groupID)

SelfCall(r) ==
    IsCall(r, "updateUserRole") /\ r.args.userID = r.args.targetUserID

\* C2 as stated: updateUserRole with userID = targetUserID responds 400 and
\* changes no role, whatever the other inputs (store failures set aside).
C2_SelfAlways400 ==
    \A p \in Procs :
       (req[p].pc = "done" /\ SelfCall(req[p]) /\ ~req[p].threw
          /\ (req[p].reads >= 1 => ~req[p].adminThrew)) =>
          (Status(req[p]) = 400 /\ req[p].writes = 0)

\* C2 amended: updateUserRole with userID = targetUserID never changes the
\* group store and never responds 200.  It responds 400 when a field is
\* missing or the role is invalid; otherwise 403 when the caller is not an
\* admin of the group (the group may not exist) or the admin lookup fails;
\* otherwise 400 'Cannot change your own role', or 500 when the group load fails.
C2_SelfNeverChangesRole ==
    [][\A p \in Procs :
         (SelfCall(req'[p]) /\ req'[p] # req[p]) =>
            LET a == req'[p].args IN
            /\ groups' = groups
            /\ req'[p].pc # "save"
            /\ (Free(p) /\ req'[p].pc = "done") =>
                  /\ Status(req'[p]) = 400
                  /\ \/ "" \in {a.userID, a.role, a.groupID}
                     \/ a.role \notin {"admin", "caregiver", "carereceiver"}
            /\ (Free(p) /\ req'[p].pc # "done") =>
                  /\ "" \notin {a.userID, a.role, a.groupID}
                  /\ a.role \in {"admin", "caregiver", "carereceiver"}
            /\ req[p].pc = "admin" =>
                  IF HasAdminEntry(a.userID, a.groupID) /\ ~req'[p].adminThrew
                  THEN req'[p].pc = "load"
                  ELSE req'[p].pc = "done" /\ Status(req'[p]) = 403
            /\ req[p].pc = "load" =>
                  /\ req'[p].pc = "done"
                  /\ Status(req'[p]) = IF req'[p].threw THEN 500 ELSE 400
            /\ req'[p].pc = "done" =>
                  Len(req'[p].res) = 1 /\ req'[p].writes = 0
      ]_vars

\* C2 witness: an admin's self-change was rejected with 400 after both group reads
C2_Witness ==
    \E p \in Procs :
       /\ req[p].pc = "done" /\ SelfCall(req[p])
       /\ req[p].reads = 2 /\ Status(req[p]) = 400
       /\ HasAdminEntry(req[p].args.userID, req[p].args.groupID)

\* C3: with all four inputs present and role outside {admin, caregiver,
\* carereceiver}, updateUserRole responds 400 at once: it never reaches the
\* admin check, reads no group and writes none.
C3_InvalidRole400First ==
    \A p \in Procs :
       (IsCall(req[p], "updateUserRole")
          /\ "" \notin {req[p].args.userID, req[p].args.targetUserID,
                        req[p].args.role, req[p].args.groupID}
          /\ req[p].args.role \notin {"admin", "caregiver", "carereceiver"}) =>
          /\ req[p].pc = "done"
          /\ Len(req[p].res) = 1 /\ Status(req[p]) = 400
          /\ req[p].reads = 0 /\ req[p].writes = 0

\* C3 witness: an invalid role sent by an admin of the group was answered 400
C3_Witness ==
    \E p \in Procs :
       /\ req[p].pc = "done" /\ IsCall(req[p], "updateUserRole")
       /\ req[p].args.role = "owner" /\ Status(req[p]) = 400
       /\ req[p].args.targetUserID # ""
       /\ HasAdminEntry(req[p].args.userID, req[p].args.groupID)

\* a checkUserAdminStatus(M, G) step taken while the last write to G is the
\* successful updateUserRole that set M's role
CheckAfterWrite(p) ==
    /\ Free(p) /\ IsCall(req'[p], "checkUserAdminStatus") /\ req'[p] # req[p]
    /\ lastWrite # NullDoc
    /\ lastWrite.target = req'[p].args.userID
    /\ lastWrite.groupID = req'[p].args.groupID

ReflectsWrite(r) ==
    /\ Status(r) = 200
    /\ Body(r).isMember
    /\ Body(r).role = lastWrite.role
    /\ Body(r).isAdmin = (lastWrite.role = "admin")

----------------------------------------------------------------------------
(* Properties of concurrent role updates *)

\* the member list read, with the entry of user target given the role
WithRole(base, target, role) ==
    [i \in 1..Len(base) |->
        IF base[i].user = target THEN [base[i] EXCEPT !.role = role] ELSE base[i]]

RoleOf(members, user) ==
    (CHOOSE m \in {members[i] : i \in 1..Len(members)} : m.user = user).role

\* p and q are finished updateUserRole calls on one group and different
\* targets, both answered 200, q read the group before p saved and q saved last
LostUpdate(p, q) ==
    /\ p # q
    /\ req[p].pc = "done" /\ IsCall(req[p], "updateUserRole")
    /\ req[q].pc = "done" /\ IsCall(req[q], "updateUserRole")
    /\ req[p].writes = 1 /\ req[q].writes = 1
    /\ req[p].args.groupID = req[q].args.groupID
    /\ req[p].args.targetUserID # req[q].args.targetUserID
    /\ req[q].overlap
    /\ lastWrite.by = q

\* C10: two updateUserRole calls on one group and different targets that both
\* read before either saves both respond 200, and the stored member list is
\* then exactly what the later save wrote: the list it read with its own
\* target's role set.  The earlier call's target has the role the later call read.
C10_LastWriteWins ==
    \A p, q \in Procs :
       LostUpdate(p, q) =>
          LET g == req[q].args.groupID IN
          /\ Status(req[p]) = 200 /\ Status(req[q]) = 200
          /\ groups[g].members =
                WithRole(req[q].base, req[q].args.targetUserID, req[q].args.role)
          /\ RoleOf(groups[g].members, req[p].args.targetUserID) =
                RoleOf(req[q].base, req[p].args.targetUserID)

\* C10 witness: the earlier call's role change is not in the store
C10_Witness ==
    \E p, q \in Procs :
       /\ LostUpdate(p, q)
       /\ RoleOf(groups[req[q].args.groupID].members, req[p].args.targetUserID)
             # req[p].args.role

----------------------------------------------------------------------------
(* Group enumeration and the family roster *)

\* atomic handlers finish in one step
Finish(p, handler, args, status, body, threw) ==
    req' = [req EXCEPT ![p] =
               Done(handler, args, <<Response(status, body)>>, threw, 0, 0)]

\* additionalGroups[from..].groupID, skipping entries without a groupID
RECURSIVE pushAdditional(_, _, _)
pushAdditional(groupIDs, additionalGroups, i) ==
    IF i > Len(additionalGroups) THEN groupIDs
    ELSE IF additionalGroups[i].groupID # Null
    THEN pushAdditional(Append(groupIDs, additionalGroups[i].groupID),
                        additionalGroups, i + 1)
    ELSE pushAdditional(groupIDs, additionalGroups, i + 1)

\* mutant of userGroupIDs: the primary group is pushed last
userGroupIDsPrimaryLast(user) ==
    pushAdditional(<<>>, user.additionalGroups, 1)
       \o (IF user.groupID # Null THEN <<user.groupID>> ELSE <<>>)

\* getAllUserGroups, lines 147-162
userGroupIDs(user) ==
    pushAdditional(IF user.groupID # Null THEN <<user.groupID>> ELSE <<>>,
                   user.additionalGroups, 1)

\* getAllGroups, lines 245-254
allGroupIDs(user) ==
    (IF user.groupID # Null THEN <<user.groupID>> ELSE <<>>)
       \o (IF Len(user.additionalGroups) > 0
           THEN [i \in 1..Len(user.additionalGroups) |->
                    user.additionalGroups[i].groupID]
           ELSE <<>>)

\* Group.find({_id: {$in: groupIDs}}) mapped to {id, name}
formattedGroups(groupIDs) ==
    {[id |-> g, name |-> groups[g].name] :
        g \in {groupIDs[i] : i \in 1..Len(groupIDs)} \cap DOMAIN groups}

\* lines 136-186; tUser: User.findById throws, tGroup: Group.find throws
getAllUserGroups(p, userID, tUser, tGroup) ==
    /\ Free(p)
    /\ LET args == [userID |-> userID]
           user == findById(users, userID) IN
       IF tUser
       THEN Finish(p, "getAllUserGroups", args, 500,
                   [message |-> "Failed to fetch user groups"], TRUE)
       ELSE IF user = NullDoc
       THEN Finish(p, "getAllUserGroups", args, 404,
                   [message |-> "User not found"], FALSE)
       ELSE IF tGroup
       THEN Finish(p, "getAllUserGroups", args, 500,
                   [message |-> "Failed to fetch user groups"], TRUE)
       ELSE Finish(p, "getAllUserGroups", args, 200,
                   [groupIDs |-> userGroupIDs(user),
                    groups |-> formattedGroups(userGroupIDs(user))], FALSE)
    /\ UNCHANGED <<users, groups, lastWrite>>

\* lines 230-268
getAllGroups(p, userID, throws) ==
    /\ Free(p)
    /\ LET args == [userID |-> userID]
           user == findById(users, userID) IN
       IF userID = ""
       THEN Finish(p, "getAllGroups", args, 400,
                   [message |-> "User ID is required"], FALSE)
       ELSE IF throws
       THEN Finish(p, "getAllGroups", args, 500, [error |-> "store"], TRUE)
       ELSE IF user = NullDoc
       THEN Finish(p, "getAllGroups", args, 404,
                   [message |-> "User not found"], FALSE)
       ELSE Finish(p, "getAllGroups", args, 200,
                   [message |-> "User groups retrieved successfully",
                    userID |-> userID,
                    groupIDs |-> allGroupIDs(user),
                    totalGroups |-> Len(allGroupIDs(user)),
                    hasAdditionalGroups |-> Len(user.additionalGroups) > 0],
                   FALSE)
    /\ UNCHANGED <<users, groups, lastWrite>>

\* x || '' of a name
OrEmpty(x) == IF x = NoName THEN <<>> ELSE x

\* String.prototype.trim
RECURSIVE trimStart(_)
trimStart(str) ==
    IF str # <<>> /\ Head(str) = " " THEN trimStart(Tail(str)) ELSE str

RECURSIVE trimEnd(_)
trimEnd(str) ==
    IF str # <<>> /\ str[Len(str)] = " "
    THEN trimEnd(SubSeq(str, 1, Len(str) - 1)) ELSE str

trim(str) == trimEnd(trimStart(str))

\* mutant of fullName: a missing profile yields no name at all
fullNameOrNull(userInfo) ==
    IF userInfo # NullDoc
    THEN trim(OrEmpty(userInfo.firstName) \o <<" ">> \o OrEmpty(userInfo.lastName))
    ELSE NoName

\* line 425
fullName(userInfo) ==
    IF userInfo # NullDoc
    THEN trim(OrEmpty(userInfo.firstName) \o <<" ">> \o OrEmpty(userInfo.lastName))
    ELSE <<>>

\* lines 412-418: the batch lookup, keyed by user id
userMap(memberUserIDs) ==
    [u \in memberUserIDs \cap DOMAIN users |-> users[u]]

\* line 421-430
familyMember(member, map) ==
    LET userInfo == findById(map, member.user) IN
    [userID |-> member.user,
     fullName |-> fullName(userInfo),
     imageURL |-> IF userInfo # NullDoc THEN OrNull(userInfo.imageURL) ELSE Null,
     role |-> member.role,
     familialRelation |-> OrNull(member.familialRelation)]

\* mutant of allMembers: the requesting user is left out
RECURSIVE allMembersButSelf(_, _)
allMembersButSelf(group, userID) ==
    IF group.members = <<>> THEN <<>>
    ELSE LET rest == allMembersButSelf([group EXCEPT !.members = Tail(@)], userID) IN
         IF Head(group.members).user = userID THEN rest
         ELSE <<Head(group.members)>> \o rest

\* line 411
allMembers(group, userID) == group.members

\* lines 398-402
targetGroupID(user, requestedGroupID) ==
    IF requestedGroupID # "" THEN requestedGroupID ELSE user.groupID

\* lines 386-436; requestedGroupID "" is no query parameter
getFamilyMembers(p, userID, requestedGroupID, tUser, tGroup, tUsers) ==
    /\ Free(p)
    /\ LET args == [userID |-> userID, groupID |-> requestedGroupID]
           user == findById(users, userID)
           group == findById(groups, targetGroupID(user, requestedGroupID))
           members == allMembers(group, userID)
           map == userMap({members[i].user : i \in 1..Len(members)})
           error == [message |-> "Internal server error"] IN
       IF tUser
       THEN Finish(p, "getFamilyMembers", args, 500, error, TRUE)
       ELSE IF user = NullDoc \/ user.groupID = Null
       THEN Finish(p, "getFamilyMembers", args, 404,
                   [message |-> "User or group not found"], FALSE)
       ELSE IF tGroup
       THEN Finish(p, "getFamilyMembers", args, 500, error, TRUE)
       ELSE IF group = NullDoc
       THEN Finish(p, "getFamilyMembers", args, 404,
                   [message |-> "Group not found or has no members"], FALSE)
       ELSE IF tUsers
       THEN Finish(p, "getFamilyMembers", args, 500, error, TRUE)
       ELSE Finish(p, "getFamilyMembers", args, 200,
                   [i \in 1..Len(members) |-> familyMember(members[i], map)],
                   FALSE)
    /\ UNCHANGED <<users, groups, lastWrite>>

\* lines 438-479
getCurrentUserFamilyRole(p, userID, requestedGroupID, tUser, tGroup) ==
    /\ Free(p)
    /\ LET args == [userID |-> userID, groupID |-> requestedGroupID]
           user == findById(users, userID)
           target == targetGroupID(user, requestedGroupID)
           group == findById(groups, target)
           index == findIndex(group.members, userID)
           error == [message |-> "Internal server error"] IN
       IF tUser
       THEN Finish(p, "getCurrentUserFamilyRole", args, 500, error, TRUE)
       ELSE IF user = NullDoc \/ user.groupID = Null
       THEN Finish(p, "getCurrentUserFamilyRole", args, 404,
                   [message |-> "User or group not found"], FALSE)
       ELSE IF tGroup
       THEN Finish(p, "getCurrentUserFamilyRole", args, 500, error, TRUE)
       ELSE IF group = NullDoc
       THEN Finish(p, "getCurrentUserFamilyRole", args, 404,
                   [message |-> "Group not found or has no members"], FALSE)
       ELSE IF index = -1
       THEN Finish(p, "getCurrentUserFamilyRole", args, 404,
                   [message |-> "User is not a member of this group"], FALSE)
       ELSE Finish(p, "getCurrentUserFamilyRole", args, 200,
                   [role |-> group.members[index].role, groupID |-> target],
                   FALSE)
    /\ UNCHANGED <<users, groups, lastWrite>>

\* the longest additionalGroups list of the initial user store
MaxAdditional == 2

GroupRefs ==
    UNION {[1..n -> {[groupID |-> g] : g \in GroupIds}] : n \in 0..MaxAdditional}

NameValues == {NoName, <<>>, Al, PaddedCy}

\* g1 is the family of u1, u2 and u3, g2 holds u2 alone; u3 has no user
\* record (deleteUser leaves the member entries of a deleted user in place)
InitRead ==
    /\ \E primary \in GroupIds \cup {Null}, additional \in GroupRefs,
          first \in NameValues, last \in NameValues :
          users = [u \in {"u1", "u2"} |->
                      IF u = "u1" THEN User(Al, Bo, primary, additional)
                      ELSE User(first, last, "g1", <<>>)]
    /\ groups = [g \in GroupIds |->
                    IF g = "g1"
                    THEN [name |-> "Family",
                          members |-> <<Member("u1", "admin", Null),
                                        Member("u2", "caregiver", "son"),
                                        Member("u3", "carereceiver", "mother")>>]
                    ELSE [name |-> "Friends",
                          members |-> <<Member("u2", "admin", Null)>>]]
    /\ req = [p \in Procs |-> Idle]
    /\ lastWrite = NullDoc

NextRead ==
    \E p \in {"p1"} :
       \/ \E u \in UserIds, tU, tG \in BOOLEAN : getAllUserGroups(p, u, tU, tG)
       \/ \E u \in ReqUserIds, throws \in BOOLEAN : getAllGroups(p, u, throws)
       \/ \E u \in UserIds, g \in {"", "g1", "g2", "g3"}, tU, tG, tUs \in BOOLEAN :
             getFamilyMembers(p, u, g, tU, tG, tUs)
       \/ \E u \in UserIds, g \in {"", "g1", "g2", "g3"}, tU, tG \in BOOLEAN :
             getCurrentUserFamilyRole(p, u, g, tU, tG)

SpecRead == InitRead /\ [][NextRead]_vars

----------------------------------------------------------------------------
(* Properties of group enumeration and the family roster *)

IsTrimOf(t, s) ==
    /\ t # <<>> => (t[1] # " " /\ t[Len(t)] # " ")
    /\ \E i \in 0..Len(s) :
          /\ i + Len(t) <= Len(s)
          /\ t = SubSeq(s, i + 1, i + Len(t))
          /\ \A j \in 1..Len(s) : (j <= i \/ j > i + Len(t)) => s[j] = " "

\* the group a getFamilyMembers request is about
RosterGroup(r) ==
    IF r.args.groupID # "" THEN r.args.groupID ELSE users[r.args.userID].groupID

C8_OverrideWithoutPrimary ==
    \A p \in Procs :
       (req[p].pc = "done" /\ req[p].handler = "getFamilyMembers"
          /\ ~req[p].threw
          /\ req[p].args.userID \in DOMAIN users
          /\ users[req[p].args.userID].groupID = Null
          /\ req[p].args.groupID \in DOMAIN groups) =>
          /\ Status(req[p]) = 200
          /\ Len(Body(req[p])) = Len(groups[req[p].args.groupID].members)

----------------------------------------------------------------------------
(* Profile handlers *)

\* findByIdAndUpdate(id, {$set: updates}, {new: true}): the store after the update
applySet(doc, updates) ==
    [f \in DOMAIN doc \cup DOMAIN updates |->
        IF f \in DOMAIN updates THEN updates[f] ELSE doc[f]]

findByIdAndUpdate(store, id, updates) ==
    [store EXCEPT ![id] = applySet(@, updates)]

\* lines 278-280: if (updates.email) delete updates.email
stripEmail(updates) ==
    IF "email" \in DOMAIN updates /\ updates["email"] \notin {Null, ""}
    THEN [f \in DOMAIN updates \ {"email"} |-> updates[f]]
    ELSE updates

\* lines 272-298
updateUser(p, userID, body, throws) ==
    /\ Free(p)
    /\ LET args == [userID |-> userID, body |-> body]
           updates == stripEmail(body) IN
       IF throws
       THEN /\ Finish(p, "updateUser", args, 500, [error |-> "store"], TRUE)
            /\ UNCHANGED users
       ELSE IF findById(users, userID) = NullDoc
       THEN /\ Finish(p, "updateUser", args, 404,
                      [message |-> "User not found"], FALSE)
            /\ UNCHANGED users
       ELSE /\ users' = findByIdAndUpdate(users, userID, updates)
            /\ Finish(p, "updateUser", args, 200, users'[userID], FALSE)
    /\ UNCHANGED <<groups, lastWrite>>

\* lines 89-133: the catch block is empty, so a store failure sends nothing
provideAdditionalUserInfo(p, userID, body, throws) ==
    /\ Free(p)
    /\ LET args == [userID |-> userID, body |-> body] IN
       IF \/ body.firstName \in {NoName, <<>>} \/ body.lastName \in {NoName, <<>>}
          \/ body.dateOfBirth \in {Null, ""} \/ body.gender \in {Null, ""}
          \/ body.weight = 0 \/ body.height = 0
       THEN /\ Finish(p, "provideAdditionalUserInfo", args, 400,
                      [message |-> "Please fill out all fields to complete onboarding"],
                      FALSE)
            /\ UNCHANGED users
       ELSE IF throws
       THEN /\ req' = [req EXCEPT ![p] =
                  Done("provideAdditionalUserInfo", args, <<>>, TRUE, 0, 0)]
            /\ UNCHANGED users
       ELSE IF findById(users, userID) = NullDoc
       THEN /\ Finish(p, "provideAdditionalUserInfo", args, 404,
                      [message |-> "User not found"], FALSE)
            /\ UNCHANGED users
       ELSE /\ users' = findByIdAndUpdate(users, userID, body)
            /\ Finish(p, "provideAdditionalUserInfo", args, 200,
                      [message |-> "Additional info saved successfully",
                       user |-> users'[userID]], FALSE)
    /\ UNCHANGED <<groups, lastWrite>>

\* request values with their JavaScript type
Bool(b) == [t |-> "boolean", v |-> b]
Undefined == [t |-> "undefined"]

\* lines 574-620
updateNotificationPreferences(p, userID, body, throws) ==
    /\ Free(p)
    /\ LET args == [userID |-> userID, body |-> body]
           preferences == [doNotDisturb |-> body.doNotDisturb.v,
                           newFeed |-> body.newFeed.v,
                           newActivity |-> body.newActivity.v,
                           invites |-> body.invites.v] IN
       IF \/ body.doNotDisturb.t # "boolean" \/ body.newFeed.t # "boolean"
          \/ body.newActivity.t # "boolean" \/ body.invites.t # "boolean"
       THEN /\ Finish(p, "updateNotificationPreferences", args, 400,
                      [message |-> "Invalid preferences format. All preference values must be boolean."],
                      FALSE)
            /\ UNCHANGED users
       ELSE IF throws
       THEN /\ Finish(p, "updateNotificationPreferences", args, 500,
                      [message |-> "Failed to update notification preferences"], TRUE)
            /\ UNCHANGED users
       ELSE IF findById(users, userID) = NullDoc
       THEN /\ Finish(p, "updateNotificationPreferences", args, 404,
                      [message |-> "User not found"], FALSE)
            /\ UNCHANGED users
       ELSE /\ users' = findByIdAndUpdate(users, userID,
                           [notificationPreferences |-> preferences])
            /\ Finish(p, "updateNotificationPreferences", args, 200,
                      [message |-> "Notification preferences updated successfully",
                       preferences |-> preferences], FALSE)
    /\ UNCHANGED <<groups, lastWrite>>

\* lines 635-640
defaultPreferences ==
    [doNotDisturb |-> FALSE, newFeed |-> TRUE, newActivity |-> TRUE,
     invites |-> TRUE]

\* the finished lookup by id: 500 when the store throws, 404 when the user is
\* missing, 200 with payload otherwise
Lookup(handler, userID, throws, error, user, payload) ==
    IF throws
    THEN Done(handler, [userID |-> userID], <<Response(500, error)>>, TRUE, 0, 0)
    ELSE IF user = NullDoc
    THEN Done(handler, [userID |-> userID],
              <<Response(404, [message |-> "User not found"])>>, FALSE, 0, 0)
    ELSE Done(handler, [userID |-> userID], <<Response(200, payload)>>, FALSE, 0, 0)

\* lines 623-650
getNotificationPreferences(p, userID, throws) ==
    /\ Free(p)
    /\ LET user == findById(users, userID) IN
       req' = [req EXCEPT ![p] =
          Lookup("getNotificationPreferences", userID, throws,
                 [message |-> "Failed to fetch notification preferences"], user,
                 IF user.notificationPreferences = NullDoc THEN defaultPreferences
                 ELSE user.notificationPreferences)]
    /\ UNCHANGED <<users, groups, lastWrite>>

\* lines 212-227
getUser(p, userID, throws) ==
    /\ Free(p)
    /\ LET user == findById(users, userID) IN
       req' = [req EXCEPT ![p] =
          Lookup("getUser", userID, throws,
                 [message |-> "Internal server error"], user, user)]
    /\ UNCHANGED <<users, groups, lastWrite>>

\* lines 189-210
getUserGroup(p, userID, throws) ==
    /\ Free(p)
    /\ LET user == findById(users, userID) IN
       req' = [req EXCEPT ![p] =
          Lookup("getUserGroup", userID, throws,
                 [message |-> "Failed to fetch user group"], user,
                 [groupID |-> user.groupID])]
    /\ UNCHANGED <<users, groups, lastWrite>>

\* lines 369-383
getUserInfo(p, userID, throws) ==
    /\ Free(p)
    /\ LET user == findById(users, userID) IN
       req' = [req EXCEPT ![p] =
          Lookup("getUserInfo", userID, throws,
                 [message |-> "Internal server error"], user,
                 [fullName |-> fullName(user),
                  imageURL |-> OrNull(user.imageURL)])]
    /\ UNCHANGED <<users, groups, lastWrite>>

\* User.findOne({clerkID}): the id of a user with that clerkID, Null if none
findOneByClerkID(store, clerkID) ==
    IF \E u \in DOMAIN store : store[u].clerkID = clerkID
    THEN CHOOSE u \in DOMAIN store : store[u].clerkID = clerkID
    ELSE Null

\* lines 343-365
getUserIdByClerkId(p, clerkID, throws) ==
    /\ Free(p)
    /\ LET args == [clerkID |-> clerkID]
           id == findOneByClerkID(users, clerkID) IN
       IF clerkID = ""
       THEN Finish(p, "getUserIdByClerkId", args, 400,
                   [message |-> "clerkID is required"], FALSE)
       ELSE IF throws
       THEN Finish(p, "getUserIdByClerkId", args, 500,
                   [message |-> "Internal server error"], TRUE)
       ELSE IF id = Null
       THEN Finish(p, "getUserIdByClerkId", args, 404,
                   [message |-> "User not found"], FALSE)
       ELSE Finish(p, "getUserIdByClerkId", args, 200, [userID |-> id], FALSE)
    /\ UNCHANGED <<users, groups, lastWrite>>

\* the Task and Notification stores, read-only in this controller
TaskStore ==
    {[id |-> "t1", assignedTo |-> "u1", assignedBy |-> "u2", deadline |-> 3],
     [id |-> "t2", assignedTo |-> "u1", assignedBy |-> "u2", deadline |-> 1],
     [id |-> "t3", assignedTo |-> "u2", assignedBy |-> "u1", deadline |-> 2]}

NotificationStore ==
    {[id |-> "n1", userID |-> "u1", taskID |-> "t1", createdAt |-> 1],
     [id |-> "n2", userID |-> "u1", taskID |-> "t2", createdAt |-> 2]}

\* .sort({key: 1}) and .sort({key: -1}) of the found documents
RECURSIVE sortBy(_, _, _)
sortBy(docs, key, ascending) ==
    IF docs = {} THEN <<>>
    ELSE LET first == CHOOSE d \in docs :
                         \A e \in docs :
                            IF ascending THEN d[key] <= e[key] ELSE d[key] >= e[key] IN
         <<first>> \o sortBy(docs \ {first}, key, ascending)

\* lines 318-328: res.json sends the default status 200
getUserTasks(p, userID, throws) ==
    /\ Free(p)
    /\ IF throws
       THEN Finish(p, "getUserTasks", [userID |-> userID], 500,
                   [error |-> "store"], TRUE)
       ELSE Finish(p, "getUserTasks", [userID |-> userID], 200,
                   sortBy({t \in TaskStore : t.assignedTo = userID}, "deadline", TRUE),
                   FALSE)
    /\ UNCHANGED <<users, groups, lastWrite>>

\* lines 330-340
getUserNotifications(p, userID, throws) ==
    /\ Free(p)
    /\ IF throws
       THEN Finish(p, "getUserNotifications", [userID |-> userID], 500,
                   [error |-> "store"], TRUE)
       ELSE Finish(p, "getUserNotifications", [userID |-> userID], 200,
                   sortBy({n \in NotificationStore : n.userID = userID},
                          "createdAt", FALSE),
                   FALSE)
    /\ UNCHANGED <<users, groups, lastWrite>>

\* request bodies
UpdateBodies ==
    {b \in UNION {[D -> {"", "x@y.com", "Bob"}] : D \in SUBSET {"email", "name"}} :
        /\ "email" \in DOMAIN b => b["email"] \in {"", "x@y.com"}
        /\ "name" \in DOMAIN b => b["name"] = "Bob"}

OnboardingBody(firstName, weight) ==
    [firstName |-> firstName, lastName |-> Bo, dateOfBirth |-> "2000-01-01",
     gender |-> "f", weight |-> weight, height |-> 170]

OnboardingBodies ==
    {OnboardingBody(f, w) : f \in {<<>>, PaddedCy}, w \in {0, 60}}

PreferenceBodies ==
    {[doNotDisturb |-> d, newFeed |-> Bool(TRUE), newActivity |-> Bool(FALSE),
      invites |-> i] : d \in {Bool(TRUE), Bool(FALSE)}, i \in {Bool(TRUE), Undefined}}

CrudUserIds == {"u1", "u3"}

InitCrud ==
    /\ users = [u \in {"u1", "u2"} |->
                   [User(Al, Bo, "g1", <<>>) EXCEPT
                       !.clerkID = IF u = "u1" THEN "c1" ELSE "c2"]]
    /\ groups = RoleGroups("admin", "caregiver")
    /\ req = [p \in Procs |-> Idle]
    /\ lastWrite = NullDoc

NextCrud ==
    \E p \in {"p1"}, throws \in BOOLEAN :
       \/ \E u \in CrudUserIds, b \in UpdateBodies : updateUser(p, u, b, throws)
       \/ \E u \in CrudUserIds, b \in OnboardingBodies :
             provideAdditionalUserInfo(p, u, b, throws)
       \/ \E u \in CrudUserIds, b \in PreferenceBodies :
             updateNotificationPreferences(p, u, b, throws)
       \/ \E u \in CrudUserIds : deleteUser(p, u, throws)
       \/ \E u \in CrudUserIds : getNotificationPreferences(p, u, throws)
       \/ \E u \in CrudUserIds : getUser(p, u, throws)
       \/ \E u \in CrudUserIds : getUserGroup(p, u, throws)
       \/ \E u \in CrudUserIds : getUserInfo(p, u, throws)
       \/ \E c \in {"", "c1", "c9"} : getUserIdByClerkId(p, c, throws)
       \/ \E u \in CrudUserIds : getUserTasks(p, u, throws)
       \/ \E u \in CrudUserIds : getUserNotifications(p, u, throws)

SpecCrud == InitCrud /\ [][NextCrud]_vars

----------------------------------------------------------------------------
(* Properties of the profile handlers *)

\* C5: updateUser never changes the stored email of an existing user, whatever
\* the body's email field holds (the empty string included), while the other
\* fields of the body are applied and the call answers 200 (store failures
\* set aside).
C5_EmailNeverChanges ==
    [][\A p \in Procs :
         (Free(p) /\ IsCall(req'[p], "updateUser") /\ req'[p] # req[p]
            /\ req'[p].args.userID \in DOMAIN users) =>
            LET id == req'[p].args.userID
                body == req'[p].args.body IN
            /\ users'[id].email = users[id].email
            /\ ~req'[p].threw =>
                  /\ Status(req'[p]) = 200
                  /\ "name" \in DOMAIN body => users'[id].name = body["name"]
      ]_vars

\* C9: every finished handler invocation has sent exactly one response,
\* provideAdditionalUserInfo after a store failure included.
C9_ExactlyOneResponse ==
    \A p \in Procs : req[p].pc = "done" => Len(req[p].res) = 1

----------------------------------------------------------------------------
(* Properties of role updates run one at a time *)

HasSomeAdmin(members) ==
    \E i \in 1..Len(members) : members[i].role = "admin"

UniqueUsers(members) ==
    \A i, j \in 1..Len(members) : members[i].user = members[j].user => i = j

\* C11: with member entries of unique users and updateUserRole calls run one
\* at a time, a group that has an admin keeps one.  A step that changes a
\* group is the save of a call answered 200 whose caller is an admin entry
\* of the group and differs from the target; it changes the target's entry
\* only, so the caller is still an admin afterwards.  A call answered
\* 400, 403, 404 or 500 leaves the groups as they were.
C11_AdminKept ==
    [][\A g \in DOMAIN groups :
         LET members == groups[g].members
             after == groups'[g].members IN
         UniqueUsers(members) =>
            /\ HasSomeAdmin(members) => HasSomeAdmin(after)
            /\ groups'[g] # groups[g] =>
                  \E p \in Procs :
                     LET a == req[p].args IN
                     /\ req[p].pc = "save" /\ req'[p].pc = "done"
                     /\ Status(req'[p]) = 200
                     /\ a.groupID = g
                     /\ a.userID # a.targetUserID
                     /\ Len(after) = Len(members)
                     /\ \A i \in 1..Len(members) :
                           /\ after[i].user = members[i].user
                           /\ members[i].user # a.targetUserID =>
                                 after[i] = members[i]
                           /\ members[i].user = a.targetUserID =>
                                 after[i].role = a.role
                           /\ members[i].user = a.userID =>
                                 (members[i].role = "admin" /\ after[i].role = "admin")
                     /\ \E i \in 1..Len(members) : members[i].user = a.userID
            /\ \A p \in Procs :
                  (IsCall(req'[p], "updateUserRole") /\ req'[p].pc = "done"
                     /\ req'[p] # req[p] /\ Status(req'[p]) # 200) =>
                     groups' = groups
      ]_vars

\* C11 witness: an admin was demoted by another admin and the group still has one
C11_Witness ==
    \E p \in Procs :
       /\ req[p].pc = "done" /\ IsCall(req[p], "updateUserRole")
       /\ Status(req[p]) = 200
       /\ req[p].args.role # "admin"
       /\ \E i \in 1..Len(req[p].base) :
             /\ req[p].base[i].user = req[p].args.targetUserID
             /\ req[p].base[i].role = "admin"
       /\ groups[req[p].args.groupID].members = req[p].doc.members
       /\ HasSomeAdmin(groups[req[p].args.groupID].members)

\* the interleaved case: no entry of the group is an admin any more
C11_NoAdminLeft ==
    \E g \in DOMAIN groups : ~HasSomeAdmin(groups[g].members)

====
